---- MODULE Spec2Model ----
(***************************************************************************)
(* The receive ("download") engine of yatcp, src/yatcp/yatcp_download.rs,  *)
(* and the sequence-number type of src/utils/seq.rs.                       *)
(*                                                                         *)
(* The engine keeps its sequence numbers as plain u32: every `+`, `+=`,    *)
(* `<`, `<=` of handle_frags and check_rep is the machine operation on     *)
(* u32, not the circular one of Seq.  u32 is scaled down to SeqBits bits   *)
(* so that the top of the ordinal space is reached.  An overflowing `+`    *)
(* panics when the crate is built with overflow checks (the dev profile)   *)
(* and wraps otherwise (the release profile); the profile is the variable  *)
(* overflow_checks, fixed when the process starts.                         *)
(*                                                                         *)
(* A packet is modelled by what the codec and the byte reader yield for    *)
(* it: the outcome of PacketHeader::from_bytes, then for each fragment the *)
(* outcome of FragHeader::from_bytes and the bytes left for its body.      *)
(***************************************************************************)
EXTENDS Integers, Sequences, FiniteSets, TLC

\* ------------------------------------------------------------------ bounds
SeqBits == 3
MaxCap == 3
MaxFrags == 2
NumVersions == 2

\* ------------------------------------------------------------- u32 / usize
Modulus == 2 ^ SeqBits
U32Max == Modulus - 1
Ordinals == 0 .. U32Max
UsizeModulus == Modulus * Modulus

\* a + b on u32: the wrapped value, and whether the exact sum left the type
AddU32(a, b) == [val |-> (a + b) % Modulus, overflow |-> a + b >= Modulus]

\* `n as u32` for a usize n
AsU32(n) == n % Modulus

\* a - b on usize
SubUsize(a, b) == [val |-> (a - b) % UsizeModulus, overflow |-> a < b]

VARIABLES
    status,                         \* "builder" | "running" | "panicked"
    overflow_checks,                \* build profile: TRUE = overflow panics
    max_local_receiving_queue_len,
    local_next_seq_to_receive,
    receiving_queue,                \* BTreeMap<u32, BufFrag>: a function on its keys
    received_queue,                 \* VecDeque<BufFrag>
    last_call,                      \* the last call made: "none" | "build" | "input" | "recv"
    last_ret,                       \* what it returned (tag, and the fragment of a recv)
    recv_count,                     \* history: how many fragments recv() has returned
    seq_a, seq_b, seq_c,            \* Seq operands of the calls on the Seq type
    seq_n,                          \* a usize offset
    seq_op,                         \* the last Seq operation applied
    seq_ret                         \* what it returned

engine_vars == <<status, overflow_checks, max_local_receiving_queue_len,
                 local_next_seq_to_receive, receiving_queue, received_queue,
                 last_call, last_ret, recv_count>>

seq_vars == <<seq_a, seq_b, seq_c, seq_n, seq_op, seq_ret>>

vars == <<status, overflow_checks, max_local_receiving_queue_len,
          local_next_seq_to_receive, receiving_queue, received_queue,
          last_call, last_ret, recv_count,
          seq_a, seq_b, seq_c, seq_n, seq_op, seq_ret>>

\* ---------------------------------------------------------------------- Seq
\* struct Seq { n: u32 }
SeqFromU32(n) == [n |-> n]

SeqToU32(s) == s.n

Seqs == {SeqFromU32(n) : n \in Ordinals}

\* usize offsets: every value of the ordinal space and two beyond it
Offsets == 0 .. Modulus + 1

\* the comparison written with `diff < u32::MAX / 2`
SeqCmp_StrictHalf(self, other) ==
    IF self.n < other.n
    THEN IF other.n - self.n < U32Max \div 2 THEN "Less" ELSE "Greater"
    ELSE IF self.n = other.n
         THEN "Equal"
         ELSE IF self.n - other.n < U32Max \div 2 THEN "Greater" ELSE "Less"

\* Ord::cmp for Seq
SeqCmp(self, other) ==
    IF self.n < other.n
    THEN IF other.n - self.n <= U32Max \div 2 THEN "Less" ELSE "Greater"
    ELSE IF self.n = other.n
         THEN "Equal"
         ELSE IF self.n - other.n <= U32Max \div 2 THEN "Greater" ELSE "Less"

\* `lhs < rhs` through PartialOrd::partial_cmp
SeqLt(lhs, rhs) == SeqCmp(lhs, rhs) = "Less"

\* Seq::max
SeqMax(lhs, rhs) == IF SeqLt(lhs, rhs) THEN rhs ELSE lhs

\* Seq::add_usize: Wrapping(self.n) + Wrapping(n as u32)
SeqAddUsize(self, n) == [n |-> (self.n + AsU32(n)) % Modulus]

\* the subtraction written Wrapping(other.n) - Wrapping(self.n)
SeqSub_Reversed(self, other) == (other.n - self.n) % Modulus

\* Seq::sub: Wrapping(self.n) - Wrapping(other.n), widened to usize
SeqSub(self, other) == (self.n - other.n) % Modulus

\* Seq::increment: the value it leaves in *self
SeqIncrement(self) == SeqAddUsize(self, 1)

\* ---------------------------------------------------------------- payloads
\* A BufFrag is the payload the sender attached to one sequence number:
\* `origin` is that sequence number, `ver` tells apart two transmissions of it
\* that carry different bytes.
Versions == 1 .. NumVersions
\* the sequence numbers the sender transmits again with other bytes
RetransmittedSeqs == {1, 2}
VersionsOf(s) == IF s \in RetransmittedSeqs THEN Versions ELSE {1}

EmptyMap == [k \in {} |-> 0]
Keys(m) == DOMAIN m

\* BTreeMap::insert: the new value replaces an old one under the same key
MapInsert(m, k, v) == [x \in (DOMAIN m) \cup {k} |-> IF x = k THEN v ELSE m[x]]

\* BTreeMap::remove
MapRemove(m, k) == [x \in (DOMAIN m) \ {k} |-> m[x]]

\* the first key in iteration order (ascending u32)
MinKey(m) == CHOOSE k \in DOMAIN m : \A x \in DOMAIN m : k <= x

\* ------------------------------------------------------------------ packets
PacketHeaders == {[wnd |-> 2, nack |-> 0], [wnd |-> 1, nack |-> 1]}
\* the header of the packets that carry MaxFrags fragments
LongPacketHeaders == {[wnd |-> 2, nack |-> 0]}
AckSeqs == {1, 3}
NoBytes == [origin |-> 0, ver |-> 0]

\* One fragment as the reader meets it: `decodes` is the outcome of
\* FragHeader::from_bytes, `len` the declared length of a push, `avail` the
\* bytes left behind the header, `body` what a slice of them holds.
PushFrags ==
    UNION {{[decodes |-> TRUE, cmd |-> "push", seq |-> s, len |-> 1, avail |-> 1,
      body |-> [origin |-> s, ver |-> v]] : v \in VersionsOf(s)}
           : s \in Ordinals}
ZeroLenPush ==
    [decodes |-> TRUE, cmd |-> "push", seq |-> 0, len |-> 0, avail |-> 1,
     body |-> [origin |-> 0, ver |-> 1]]
ShortPush ==
    [decodes |-> TRUE, cmd |-> "push", seq |-> 0, len |-> 1, avail |-> 0,
     body |-> NoBytes]
AckFrags ==
    {[decodes |-> TRUE, cmd |-> "ack", seq |-> s, len |-> 0, avail |-> 0,
      body |-> NoBytes] : s \in AckSeqs}
BadFrag ==
    [decodes |-> FALSE, cmd |-> "none", seq |-> 0, len |-> 0, avail |-> 0,
     body |-> NoBytes]
Frags == PushFrags \cup AckFrags \cup {ZeroLenPush, ShortPush, BadFrag}

FragSeqs == UNION {[1 .. n -> Frags] : n \in 0 .. MaxFrags}

\* A BufRdr: `hdr_ok` is the outcome of PacketHeader::from_bytes.  An empty
\* buffer is a reader whose header does not decode and that holds no fragment.
\* Bytes may follow an undecodable header: at most one fragment of them here.
BadPackets ==
    {[hdr_ok |-> FALSE, hdr |-> [wnd |-> 0, nack |-> 0], frags |-> fs] :
        fs \in {<<>>} \cup {<<f>> : f \in Frags}}
GoodPackets ==
    {pkt \in [hdr_ok : {TRUE}, hdr : PacketHeaders, frags : FragSeqs] :
        Len(pkt.frags) = MaxFrags => pkt.hdr \in LongPacketHeaders}
Packets == BadPackets \cup GoodPackets

\* ------------------------------------------------------------------- engine
\* The fields of YatcpDownload that the handlers change, as one value.
Engine(next, receiving, received) ==
    [next |-> next, receiving |-> receiving, received |-> received]

\* check_rep without its first assertion
CheckRep_NoCapTest(cap, next, receiving) ==
    /\ Cardinality(Keys(receiving)) <= cap
    /\ (Keys(receiving) # {} => next < MinKey(receiving))

\* check_rep: TRUE when none of its assertions fails
CheckRep(cap, next, receiving) ==
    /\ cap > 0
    /\ Cardinality(Keys(receiving)) <= cap
    /\ (Keys(receiving) # {} => next < MinKey(receiving))

\* the increment written `+= 2`
IncrementNext_ByTwo(st, checks) ==
    LET sum == AddU32(st.next, 2)
    IN  IF sum.overflow /\ checks
        THEN [st EXCEPT !.panic = TRUE]
        ELSE [st EXCEPT !.next = sum.val]

\* `self.local_next_seq_to_receive += 1` on the working state st
IncrementNext(st, checks) ==
    LET sum == AddU32(st.next, 1)
    IN  IF sum.overflow /\ checks
        THEN [st EXCEPT !.panic = TRUE]
        ELSE [st EXCEPT !.next = sum.val]

\* the drain written with `if let`: at most one pending fragment is moved
Drain_Once(st, checks) ==
    IF st.panic \/ st.next \notin Keys(st.receiving)
    THEN st
    ELSE IncrementNext([st EXCEPT !.receiving = MapRemove(@, st.next),
                                  !.received = Append(@, st.receiving[st.next])],
                       checks)

\* the `while let Some(frag) = receiving_queue.remove(&next)` loop
RECURSIVE Drain(_, _)
Drain(st, checks) ==
    IF st.panic \/ st.next \notin Keys(st.receiving)
    THEN st
    ELSE Drain(IncrementNext(
                   [st EXCEPT !.receiving = MapRemove(@, st.next),
                              !.received = Append(@, st.receiving[st.next])],
                   checks),
               checks)

\* the window test with its upper bound written `seq <= next + cap`
InRwnd_Inclusive(seq, next, bound) == seq <= bound /\ next <= seq

\* the window test with its lower bound `next <= seq` left out
InRwnd_NoLowerBound(seq, next, bound) == seq < bound

\* the receive-window test of handle_frags, `seq < next + cap as u32 && next <= seq`,
\* given the value the sum took
InRwnd(seq, next, bound) == seq < bound /\ next <= seq

\* the push arm without the `seq == next` test: every admitted payload goes
\* straight to the ready queue
HandlePush_NoReorder(st, cap, checks, seq, body) ==
    LET bound == AddU32(st.next, AsU32(cap))
    IN  IF bound.overflow /\ checks
        THEN [st EXCEPT !.panic = TRUE]
        ELSE IF ~InRwnd(seq, st.next, bound.val)
        THEN st
        ELSE Drain(IncrementNext([st EXCEPT !.remote_seqs_to_ack = Append(@, seq),
                                            !.received = Append(@, body)], checks),
                   checks)

\* the push arm scheduling the acknowledgment before the window test
HandlePush_AckBeforeTest(st, cap, checks, seq, body) ==
    LET bound == AddU32(st.next, AsU32(cap))
    IN  IF bound.overflow /\ checks
        THEN [st EXCEPT !.panic = TRUE]
        ELSE LET acked == [st EXCEPT !.remote_seqs_to_ack = Append(@, seq)]
             IN  IF ~InRwnd(seq, st.next, bound.val)
                 THEN acked
                 ELSE LET placed ==
                              IF seq = acked.next
                              THEN IncrementNext([acked EXCEPT !.received = Append(@, body)],
                                                 checks)
                              ELSE [acked EXCEPT !.receiving = MapInsert(@, seq, body)]
                      IN  Drain(placed, checks)

\* the push arm acknowledging a sequence number only the first time it is
\* buffered
HandlePush_AckOnlyNew(st, cap, checks, seq, body) ==
    LET bound == AddU32(st.next, AsU32(cap))
    IN  IF bound.overflow /\ checks
        THEN [st EXCEPT !.panic = TRUE]
        ELSE IF ~InRwnd(seq, st.next, bound.val)
        THEN st
        ELSE LET acked == IF seq \in Keys(st.receiving)
                          THEN st
                          ELSE [st EXCEPT !.remote_seqs_to_ack = Append(@, seq)]
                 placed ==
                     IF seq = acked.next
                     THEN IncrementNext([acked EXCEPT !.received = Append(@, body)], checks)
                     ELSE [acked EXCEPT !.receiving = MapInsert(@, seq, body)]
             IN  Drain(placed, checks)

\* the body of the `FragCommand::Push` arm once the payload is sliced
HandlePush(st, cap, checks, seq, body) ==
    LET bound == AddU32(st.next, AsU32(cap))
    IN  IF bound.overflow /\ checks
        THEN [st EXCEPT !.panic = TRUE]
        ELSE IF ~InRwnd(seq, st.next, bound.val)
        THEN st
        ELSE LET acked == [st EXCEPT !.remote_seqs_to_ack = Append(@, seq)]
                 placed ==
                     IF seq = acked.next
                     THEN IncrementNext([acked EXCEPT !.received = Append(@, body)], checks)
                     ELSE [acked EXCEPT !.receiving = MapInsert(@, seq, body)]
             IN  Drain(placed, checks)

\* rdr.try_slice(len): the body when enough bytes are left
TrySlice(f) == IF f.len <= f.avail THEN <<f.body>> ELSE <<>>

\* the loop putting each acknowledged sequence number in front of the list
RECURSIVE HandleFragsFrom_AckPrepend(_, _, _, _, _)
HandleFragsFrom_AckPrepend(st, cap, checks, frags, i) ==
    IF st.panic \/ i > Len(frags)
    THEN st
    ELSE LET f == frags[i]
         IN  IF ~f.decodes
             THEN st
             ELSE IF f.cmd = "ack"
             THEN HandleFragsFrom_AckPrepend(
                      [st EXCEPT !.acked_local_seqs = <<f.seq>> \o @],
                      cap, checks, frags, i + 1)
             ELSE IF f.len = 0
             THEN st
             ELSE IF TrySlice(f) = <<>>
             THEN st
             ELSE HandleFragsFrom_AckPrepend(
                      HandlePush(st, cap, checks, f.seq, TrySlice(f)[1]),
                      cap, checks, frags, i + 1)

\* the loop of handle_frags from the i-th fragment of the reader on
RECURSIVE HandleFragsFrom(_, _, _, _, _)
HandleFragsFrom(st, cap, checks, frags, i) ==
    IF st.panic \/ i > Len(frags)
    THEN st
    ELSE LET f == frags[i]
         IN  IF ~f.decodes
             THEN st
             ELSE IF f.cmd = "ack"
             THEN HandleFragsFrom([st EXCEPT !.acked_local_seqs = Append(@, f.seq)],
                                  cap, checks, frags, i + 1)
             ELSE IF f.len = 0
             THEN st
             ELSE IF TrySlice(f) = <<>>
             THEN st
             ELSE HandleFragsFrom(HandlePush(st, cap, checks, f.seq, TrySlice(f)[1]),
                                  cap, checks, frags, i + 1)

HandleFrags(self, cap, checks, frags) ==
    HandleFragsFrom([next |-> self.next, receiving |-> self.receiving,
                     received |-> self.received,
                     remote_seqs_to_ack |-> <<>>, acked_local_seqs |-> <<>>,
                     panic |-> FALSE],
                    cap, checks, frags, 1)

NoSummary ==
    [remote_rwnd |-> 0, remote_nack |-> 0, local_next_seq_to_receive |-> 0,
     remote_seqs_to_ack |-> <<>>, acked_local_seqs |-> <<>>,
     local_receiving_queue_free_len |-> 0]

\* input() reading the fragments before it looks at the header's outcome
InputOutcome_FragsFirst(self, cap, checks, rdr) ==
    LET st == HandleFrags(self, cap, checks, rdr.frags)
        after == Engine(st.next, st.receiving, st.received)
    IN  IF st.panic
        THEN [ret |-> "panic", self |-> after, summary |-> NoSummary]
        ELSE IF ~rdr.hdr_ok
        THEN [ret |-> "err", self |-> after, summary |-> NoSummary]
        ELSE [ret |-> "ok", self |-> after,
              summary |->
                  [remote_rwnd |-> rdr.hdr.wnd,
                   remote_nack |-> rdr.hdr.nack,
                   local_next_seq_to_receive |-> st.next,
                   remote_seqs_to_ack |-> st.remote_seqs_to_ack,
                   acked_local_seqs |-> st.acked_local_seqs,
                   local_receiving_queue_free_len |->
                       SubUsize(cap, Cardinality(Keys(st.receiving))).val]]

\* input() taking the snapshot of local_next_seq_to_receive before it handles
\* the packet
InputOutcome_StaleNext(self, cap, checks, rdr) ==
    IF ~rdr.hdr_ok
    THEN [ret |-> "err", self |-> self, summary |-> NoSummary]
    ELSE LET st == HandleFrags(self, cap, checks, rdr.frags)
             after == Engine(st.next, st.receiving, st.received)
             free == SubUsize(cap, Cardinality(Keys(st.receiving)))
         IN  IF st.panic \/ (free.overflow /\ checks)
             THEN [ret |-> "panic", self |-> after, summary |-> NoSummary]
             ELSE [ret |-> "ok", self |-> after,
                   summary |->
                       [remote_rwnd |-> rdr.hdr.wnd,
                        remote_nack |-> rdr.hdr.nack,
                        local_next_seq_to_receive |-> self.next,
                        remote_seqs_to_ack |-> st.remote_seqs_to_ack,
                        acked_local_seqs |-> st.acked_local_seqs,
                        local_receiving_queue_free_len |-> free.val]]

\* input(): what it returns ("ok" with a summary, "err", or "panic") and the
\* engine it leaves
InputOutcome(self, cap, checks, rdr) ==
    IF ~rdr.hdr_ok
    THEN [ret |-> "err", self |-> self, summary |-> NoSummary]
    ELSE LET st == HandleFrags(self, cap, checks, rdr.frags)
             after == Engine(st.next, st.receiving, st.received)
             free == SubUsize(cap, Cardinality(Keys(st.receiving)))
         IN  IF st.panic \/ (free.overflow /\ checks)
             THEN [ret |-> "panic", self |-> after, summary |-> NoSummary]
             ELSE [ret |-> "ok", self |-> after,
                   summary |->
                       [remote_rwnd |-> rdr.hdr.wnd,
                        remote_nack |-> rdr.hdr.nack,
                        local_next_seq_to_receive |-> st.next,
                        remote_seqs_to_ack |-> st.remote_seqs_to_ack,
                        acked_local_seqs |-> st.acked_local_seqs,
                        local_receiving_queue_free_len |-> free.val]]

Self == Engine(local_next_seq_to_receive, receiving_queue, received_queue)

NoFrag == [origin |-> 0, ver |-> 0]
NoRet == [tag |-> "none", frag |-> NoFrag]

\* ------------------------------------------------------------------ actions
\* no Seq operation has been applied
SeqIdle ==
    /\ seq_a = SeqFromU32(0)
    /\ seq_b = SeqFromU32(0)
    /\ seq_c = SeqFromU32(0)
    /\ seq_n = 0
    /\ seq_op = "none"
    /\ seq_ret = "none"

Init ==
    /\ SeqIdle
    /\ status = "builder"
    /\ overflow_checks \in BOOLEAN
    /\ max_local_receiving_queue_len \in 0 .. MaxCap
    /\ local_next_seq_to_receive = 0
    /\ receiving_queue = EmptyMap
    /\ received_queue = <<>>
    /\ last_call = "none"
    /\ last_ret = NoRet
    /\ recv_count = 0

\* YatcpDownloadBuilder::build
Build ==
    /\ status = "builder"
    /\ local_next_seq_to_receive' = 0
    /\ receiving_queue' = EmptyMap
    /\ received_queue' = <<>>
    /\ status' = IF CheckRep(max_local_receiving_queue_len, 0, EmptyMap)
                 THEN "running" ELSE "panicked"
    /\ last_call' = "build"
    /\ last_ret' = NoRet
    /\ UNCHANGED <<overflow_checks, max_local_receiving_queue_len, recv_count>>
    /\ UNCHANGED seq_vars

\* recv() written with pop_back: it takes the newest fragment
Recv_PopBack ==
    /\ status = "running"
    /\ received_queue' = IF received_queue = <<>> THEN <<>>
                         ELSE SubSeq(received_queue, 1, Len(received_queue) - 1)
    /\ status' = IF CheckRep(max_local_receiving_queue_len,
                             local_next_seq_to_receive, receiving_queue)
                 THEN "running" ELSE "panicked"
    /\ last_call' = "recv"
    /\ last_ret' = IF received_queue = <<>>
                   THEN [tag |-> "None", frag |-> NoFrag]
                   ELSE [tag |-> "Some", frag |-> received_queue[Len(received_queue)]]
    /\ recv_count' = IF received_queue = <<>> THEN recv_count ELSE recv_count + 1
    /\ UNCHANGED <<overflow_checks, max_local_receiving_queue_len,
                   local_next_seq_to_receive, receiving_queue>>
    /\ UNCHANGED seq_vars

\* YatcpDownload::recv
Recv ==
    /\ status = "running"
    /\ received_queue' = IF received_queue = <<>> THEN <<>> ELSE Tail(received_queue)
    /\ status' = IF CheckRep(max_local_receiving_queue_len,
                             local_next_seq_to_receive, receiving_queue)
                 THEN "running" ELSE "panicked"
    /\ last_call' = "recv"
    /\ last_ret' = IF received_queue = <<>>
                   THEN [tag |-> "None", frag |-> NoFrag]
                   ELSE [tag |-> "Some", frag |-> Head(received_queue)]
    /\ recv_count' = IF received_queue = <<>> THEN recv_count ELSE recv_count + 1
    /\ UNCHANGED <<overflow_checks, max_local_receiving_queue_len,
                   local_next_seq_to_receive, receiving_queue>>
    /\ UNCHANGED seq_vars

\* YatcpDownload::input
Input(rdr) ==
    /\ status = "running"
    /\ LET out == InputOutcome(Self, max_local_receiving_queue_len, overflow_checks, rdr)
       IN  /\ local_next_seq_to_receive' = out.self.next
           /\ receiving_queue' = out.self.receiving
           /\ received_queue' = out.self.received
           /\ status' = IF out.ret = "panic" THEN "panicked" ELSE "running"
           /\ last_ret' = [tag |-> out.ret, frag |-> NoFrag]
    /\ last_call' = "input"
    /\ UNCHANGED <<overflow_checks, max_local_receiving_queue_len, recv_count>>
    /\ UNCHANGED seq_vars

InputAny == \E rdr \in Packets : Input(rdr)

Next == Build \/ Recv \/ InputAny

Spec == Init /\ [][Next]_vars

\* ---------------------------------------------------- the Seq type on its own
\* the engine of this crate keeps plain u32 ordinals and never calls Seq, so
\* the Seq operations are exercised on operands of their own
EngineIdle ==
    /\ status = "builder"
    /\ overflow_checks = FALSE
    /\ max_local_receiving_queue_len = 1
    /\ local_next_seq_to_receive = 0
    /\ receiving_queue = EmptyMap
    /\ received_queue = <<>>
    /\ last_call = "none"
    /\ last_ret = NoRet
    /\ recv_count = 0

SeqInit ==
    /\ EngineIdle
    /\ seq_a \in Seqs
    /\ seq_b \in Seqs
    /\ seq_c \in Seqs
    /\ seq_n \in Offsets
    /\ seq_op = "none"
    /\ seq_ret = "none"

\* seq_a.cmp(&seq_b)
SeqCmpStep ==
    /\ seq_op' = "cmp"
    /\ seq_ret' = SeqCmp(seq_a, seq_b)
    /\ UNCHANGED <<seq_a, seq_b, seq_c, seq_n>>
    /\ UNCHANGED engine_vars

\* Seq::max(seq_a, seq_b)
SeqMaxStep ==
    /\ seq_op' = "max"
    /\ seq_ret' = SeqMax(seq_a, seq_b)
    /\ UNCHANGED <<seq_a, seq_b, seq_c, seq_n>>
    /\ UNCHANGED engine_vars

\* seq_a.add_usize(seq_n)
SeqAddUsizeStep ==
    /\ seq_op' = "add_usize"
    /\ seq_ret' = SeqAddUsize(seq_a, seq_n)
    /\ UNCHANGED <<seq_a, seq_b, seq_c, seq_n>>
    /\ UNCHANGED engine_vars

\* seq_a.sub(&seq_b)
SeqSubStep ==
    /\ seq_op' = "sub"
    /\ seq_ret' = SeqSub(seq_a, seq_b)
    /\ UNCHANGED <<seq_a, seq_b, seq_c, seq_n>>
    /\ UNCHANGED engine_vars

\* seq_c.increment(): it changes seq_c in place and returns nothing
SeqIncrementStep ==
    /\ seq_op' = "increment"
    /\ seq_c' = SeqIncrement(seq_c)
    /\ seq_ret' = "unit"
    /\ UNCHANGED <<seq_a, seq_b, seq_n>>
    /\ UNCHANGED engine_vars

SeqNext ==
    \/ SeqCmpStep
    \/ SeqMaxStep
    \/ SeqAddUsizeStep
    \/ SeqSubStep
    \/ SeqIncrementStep

SeqSpec == SeqInit /\ [][SeqNext]_vars

\* ------------------------------------------------------------------- claims
Running == status = "running"

\* what input(rdr) would return and leave, in the current state
Out(rdr) == InputOutcome(Self, max_local_receiving_queue_len, overflow_checks, rdr)

\* a packet with a well-formed header and the fragments fs
Pkt(fs) == [hdr_ok |-> TRUE, hdr |-> [wnd |-> 2, nack |-> 0], frags |-> fs]

\* C1: the fragments reach the ready queue in sequence order without gap or
\* repetition, counted from 0: the fragment at position i of the ready queue is
\* the payload pushed with sequence number recv_count + i - 1, and the k-th
\* fragment recv() returns is the payload pushed with sequence number k - 1.
C1_InOrderDelivery ==
    /\ \A i \in 1 .. Len(received_queue) :
           received_queue[i].origin = recv_count + i - 1
    /\ (last_call = "recv" /\ last_ret.tag = "Some")
           => last_ret.frag.origin = recv_count - 1

\* recv() has returned its third fragment while a later one waits out of order
C1_Witness ==
    /\ last_call = "recv" /\ last_ret.tag = "Some"
    /\ recv_count = 3
    /\ received_queue # <<>>
    /\ Keys(receiving_queue) # {}

\* C2: after every input() and recv() the representation invariant holds:
\* the capacity is positive, the pending window holds at most that many
\* entries and each of its keys is above local_next_seq_to_receive; and the
\* check_rep of recv() never fails.
C2_RepInvariant ==
    /\ last_call \in {"input", "recv"} =>
           /\ max_local_receiving_queue_len > 0
           /\ Cardinality(Keys(receiving_queue)) <= max_local_receiving_queue_len
           /\ \A k \in Keys(receiving_queue) : local_next_seq_to_receive < k
    /\ last_call = "recv" => status = "running"

\* an input() has left two fragments pending behind an advanced next
C2_Witness ==
    /\ last_call = "input" /\ last_ret.tag = "ok"
    /\ local_next_seq_to_receive > 0
    /\ Cardinality(Keys(receiving_queue)) = 2

\* C7: an input() whose packet header does not decode returns the decode error
\* (no panic) and leaves local_next_seq_to_receive, the pending window and the
\* ready queue as they were, whatever bytes follow the header.
C7_HeaderErrorNoChange ==
    Running => \A rdr \in BadPackets :
                   /\ Out(rdr).ret = "err"
                   /\ Out(rdr).self = Self

\* an input() returned the decode error on an engine that holds pending and
\* ready fragments
C7_Witness ==
    /\ last_call = "input" /\ last_ret.tag = "err"
    /\ received_queue # <<>>
    /\ Keys(receiving_queue) # {}

\* --------------------------------------------- the receive window, circular
\* seq lies in [next, next + cap) on the circle of ordinals
InCircularWindow(seq, next, cap) == (seq - next + Modulus) % Modulus < cap

\* the sequence numbers of the payloads handed to the ready queue so far
Delivered ==
    (0 .. recv_count - 1) \cup {received_queue[i].origin : i \in 1 .. Len(received_queue)}

\* the fields of the summary input(rdr) would return
Acks(rdr) == Out(rdr).summary.remote_seqs_to_ack

\* C3: a well-formed push is admitted (and so scheduled for acknowledgment)
\* exactly when its sequence number lies in the circular interval
\* [next, next + cap), and computing the bound never fails.
C3_CircularAdmission ==
    Running => \A f \in PushFrags :
                   /\ Out(Pkt(<<f>>)).ret = "ok"
                   /\ Acks(Pkt(<<f>>)) =
                          IF InCircularWindow(f.seq, local_next_seq_to_receive,
                                              max_local_receiving_queue_len)
                          THEN <<f.seq>> ELSE <<>>

\* C4: delivery never stalls or aborts: in every state the push carrying
\* local_next_seq_to_receive, once offered, is appended to the ready queue and
\* local_next_seq_to_receive advances.
C4_NeverStalls ==
    Running => \A f \in PushFrags :
                   f.seq = local_next_seq_to_receive =>
                       /\ Out(Pkt(<<f>>)).ret = "ok"
                       /\ Out(Pkt(<<f>>)).self.next # local_next_seq_to_receive
                       /\ Len(Out(Pkt(<<f>>)).self.received) > Len(received_queue)

\* C5: a push outside the circular window is dropped: the engine is unchanged,
\* nothing is scheduled for acknowledgment, input() returns Ok, and a fragment
\* that follows it in the same input is processed as if it came alone.
C5_OutOfWindowDropped ==
    Running => \A f \in PushFrags :
                   ~InCircularWindow(f.seq, local_next_seq_to_receive,
                                     max_local_receiving_queue_len) =>
                       /\ Out(Pkt(<<f>>)).ret = "ok"
                       /\ Out(Pkt(<<f>>)).self = Self
                       /\ Acks(Pkt(<<f>>)) = <<>>
                       /\ \A g \in Frags : Out(Pkt(<<f, g>>)) = Out(Pkt(<<g>>))

WindowTestPasses(seq) ==
    LET bound == AddU32(local_next_seq_to_receive, AsU32(max_local_receiving_queue_len))
    IN  /\ ~(bound.overflow /\ overflow_checks)
        /\ InRwnd(seq, local_next_seq_to_receive, bound.val)

Offending(f) == ~f.decodes \/ (f.cmd = "push" /\ (f.len = 0 \/ f.len > f.avail))

\* C8: input() returns Ok whenever the packet header decodes, and an
\* undecodable fragment header, a zero-length push or a push longer than the
\* bytes left ends the call with the outcome of the fragments before it.
C8_BestEffortPrefix ==
    Running => \A rdr \in GoodPackets :
                   /\ Out(rdr).ret = "ok"
                   /\ \A i \in 1 .. Len(rdr.frags) :
                          Offending(rdr.frags[i]) =>
                              Out(rdr) = Out([rdr EXCEPT !.frags = SubSeq(@, 1, i - 1)])

\* the number of pending fragments whose keys follow n without a gap
RECURSIVE RunLength(_, _)
RunLength(n, keys) ==
    IF (n + 1) % Modulus \in keys THEN 1 + RunLength((n + 1) % Modulus, keys \ {(n + 1) % Modulus})
    ELSE 0

\* C9: a push carrying local_next_seq_to_receive goes to the back of the ready
\* queue without entering the pending window, followed by the pending
\* fragments contiguous with it; local_next_seq_to_receive advances by one
\* plus their number; the pushed sequence number is scheduled for
\* acknowledgment.
C9_FastPath ==
    Running => \A f \in PushFrags :
                   f.seq = local_next_seq_to_receive =>
                       LET out == Out(Pkt(<<f>>))
                           n == RunLength(f.seq, Keys(receiving_queue))
                       IN  /\ out.ret = "ok"
                           /\ out.summary.remote_seqs_to_ack = <<f.seq>>
                           /\ out.self.next = (f.seq + 1 + n) % Modulus
                           /\ out.self.received =
                                  received_queue \o <<f.body>> \o
                                  [i \in 1 .. n |-> receiving_queue[(f.seq + i) % Modulus]]
                           /\ Keys(out.self.receiving) =
                                  Keys(receiving_queue) \ {(f.seq + i) % Modulus : i \in 1 .. n}

\* C10: a push inside the circular window and ahead of
\* local_next_seq_to_receive is stored in the pending window under its
\* sequence number, replacing a payload already stored there; the ready queue
\* and local_next_seq_to_receive are unchanged, the sequence number is
\* scheduled for acknowledgment, and the free length drops by one unless the
\* sequence number was buffered already.
C10_OutOfOrderBuffered ==
    Running => \A f \in PushFrags :
                   (/\ f.seq # local_next_seq_to_receive
                    /\ InCircularWindow(f.seq, local_next_seq_to_receive,
                                        max_local_receiving_queue_len)) =>
                       LET out == Out(Pkt(<<f>>))
                       IN  /\ out.ret = "ok"
                           /\ out.self.next = local_next_seq_to_receive
                           /\ out.self.received = received_queue
                           /\ out.summary.remote_seqs_to_ack = <<f.seq>>
                           /\ Keys(out.self.receiving) = Keys(receiving_queue) \cup {f.seq}
                           /\ out.self.receiving[f.seq] = f.body
                           /\ \A k \in Keys(receiving_queue) \ {f.seq} :
                                  out.self.receiving[k] = receiving_queue[k]
                           /\ out.summary.local_receiving_queue_free_len =
                                  max_local_receiving_queue_len
                                  - Cardinality(Keys(receiving_queue))
                                  - (IF f.seq \in Keys(receiving_queue) THEN 0 ELSE 1)

\* the well-formed push of sequence number s carrying version v of its payload
PushOf(s, v) ==
    [decodes |-> TRUE, cmd |-> "push", seq |-> s, len |-> 1, avail |-> 1,
     body |-> [origin |-> s, ver |-> v]]

\* the sequence numbers of the payloads in a ready queue, in queue order
Origins(q) == [i \in 1 .. Len(q) |-> q[i].origin]

\* C11: when input() returns, the pending window has no entry keyed by
\* local_next_seq_to_receive, every pending fragment below it has left the
\* window, and the ready queue holds the payloads of all sequence numbers below
\* it in sequence order, so it is the first sequence number not yet received.
\* With capacity 2 and 1 buffered, an input carrying 0 and 3 delivers 0 then
\* 1 and leaves next = 2 with 3 buffered; an input carrying 2 then delivers 2
\* then 3 and leaves next = 4 with an empty window.
C11_DrainOnGapFill ==
    Running =>
        /\ \A rdr \in GoodPackets :
               LET out == Out(rdr)
               IN  out.ret = "ok" =>
                       /\ out.self.next \notin Keys(out.self.receiving)
                       /\ \A k \in Keys(receiving_queue) :
                              k < out.self.next => k \notin Keys(out.self.receiving)
                       /\ Origins(out.self.received) =
                              [i \in 1 .. Len(out.self.received) |-> recv_count + i - 1]
                       /\ out.self.next = recv_count + Len(out.self.received)
                       /\ \A k \in Keys(receiving_queue) \ Keys(out.self.receiving) :
                              \E i \in Len(received_queue) + 1 .. Len(out.self.received) :
                                  out.self.received[i].origin = k
        /\ (/\ max_local_receiving_queue_len = 2
            /\ local_next_seq_to_receive = 0
            /\ Keys(receiving_queue) = {1}
            /\ received_queue = <<>>) =>
               LET out == Out(Pkt(<<PushOf(0, 1), PushOf(3, 1)>>))
               IN  /\ out.ret = "ok"
                   /\ out.self.received = <<PushOf(0, 1).body, receiving_queue[1]>>
                   /\ out.self.next = 2
                   /\ Keys(out.self.receiving) = {3}
                   /\ out.summary.local_receiving_queue_free_len = 1
        /\ (/\ max_local_receiving_queue_len = 2
            /\ local_next_seq_to_receive = 2
            /\ Keys(receiving_queue) = {3}) =>
               LET out == Out(Pkt(<<PushOf(2, 1)>>))
               IN  /\ out.ret = "ok"
                   /\ out.self.received =
                          received_queue \o <<PushOf(2, 1).body, receiving_queue[3]>>
                   /\ out.self.next = 4
                   /\ Keys(out.self.receiving) = {}
                   /\ out.summary.local_receiving_queue_free_len = 2

\* capacity 2: an input has delivered 0 then 1 and left 3 buffered behind
\* next = 2
C11_Witness ==
    /\ last_call = "input" /\ last_ret.tag = "ok"
    /\ max_local_receiving_queue_len = 2
    /\ local_next_seq_to_receive = 2
    /\ Keys(receiving_queue) = {3}
    /\ Origins(received_queue) = <<0, 1>>

\* the fragments handle_frags processes: those before the first offending one
ProcessedPrefix(fs) ==
    LET bad == {i \in 1 .. Len(fs) : Offending(fs[i])}
    IN  IF bad = {} THEN fs
        ELSE SubSeq(fs, 1, (CHOOSE i \in bad : \A j \in bad : i <= j) - 1)

IsAck(f) == f.decodes /\ f.cmd = "ack"
IsNotAck(f) == ~IsAck(f)
SeqsOf(fs) == [i \in 1 .. Len(fs) |-> fs[i].seq]

\* the acknowledgment record of sequence number s
AckOf(s) ==
    [decodes |-> TRUE, cmd |-> "ack", seq |-> s, len |-> 0, avail |-> 0, body |-> NoBytes]

\* C12: acked_local_seqs lists the sequence numbers of the acknowledgment
\* records input() processed, in the order met and with repetitions; and the
\* acknowledgment records change nothing else: the engine left, and the rest
\* of the summary, are those of the same input without them.
C12_AcksInOrder ==
    Running => \A rdr \in GoodPackets :
        LET out == Out(rdr)
            bare == Out([rdr EXCEPT !.frags = SelectSeq(@, IsNotAck)])
        IN  /\ out.ret = bare.ret
            /\ out.self = bare.self
            /\ out.ret = "ok" =>
                   /\ out.summary.acked_local_seqs =
                          SeqsOf(SelectSeq(ProcessedPrefix(rdr.frags), IsAck))
                   /\ bare.summary.acked_local_seqs = <<>>
                   /\ out.summary.remote_seqs_to_ack = bare.summary.remote_seqs_to_ack
                   /\ out.summary.local_next_seq_to_receive =
                          bare.summary.local_next_seq_to_receive
                   /\ out.summary.local_receiving_queue_free_len =
                          bare.summary.local_receiving_queue_free_len

\* an engine that holds pending and ready fragments after an input, on which
\* the acknowledgments of 3 then 1 are reported as 3, 1
C12_Witness ==
    /\ last_call = "input" /\ last_ret.tag = "ok"
    /\ Keys(receiving_queue) # {}
    /\ received_queue # <<>>
    /\ Out(Pkt(<<AckOf(3), AckOf(1)>>)).summary.acked_local_seqs = <<3, 1>>
    /\ Out(Pkt(<<AckOf(3), AckOf(1)>>)).self = Self

\* local_next_seq_to_receive once input() has processed the fragments fs
NextAfter(fs) == Out(Pkt(fs)).self.next

\* the window test of handle_frags lets seq in when next is n
AdmittedAt(seq, n) ==
    InRwnd(seq, n, AddU32(n, AsU32(max_local_receiving_queue_len)).val)

\* the sequence numbers of the pushes among fs[i..] that pass the window test
\* when they are met, in the order met
RECURSIVE AdmittedFrom(_, _)
AdmittedFrom(fs, i) ==
    IF i > Len(fs) THEN <<>>
    ELSE (IF fs[i].cmd = "push" /\ AdmittedAt(fs[i].seq, NextAfter(SubSeq(fs, 1, i - 1)))
          THEN <<fs[i].seq>> ELSE <<>>)
         \o AdmittedFrom(fs, i + 1)

\* C13: the summary of a successful input() carries the engine's
\* local_next_seq_to_receive after the call, the capacity minus the number of
\* pending entries after the call, the window and nack values of the packet
\* header, and in remote_seqs_to_ack exactly the pushes of this input that
\* passed the window test, in the order met.
C13_SummaryAfterInput ==
    Running => \A rdr \in GoodPackets :
        LET out == Out(rdr)
        IN  out.ret = "ok" =>
                /\ out.summary.local_next_seq_to_receive = out.self.next
                /\ out.summary.local_receiving_queue_free_len =
                       max_local_receiving_queue_len - Cardinality(Keys(out.self.receiving))
                /\ out.summary.remote_rwnd = rdr.hdr.wnd
                /\ out.summary.remote_nack = rdr.hdr.nack
                /\ out.summary.remote_seqs_to_ack =
                       AdmittedFrom(ProcessedPrefix(rdr.frags), 1)

\* after an input, an engine with a fragment buffered right behind a gap: the
\* push filling the gap, under the header (wnd 1, nack 1), is summarised with
\* next two further, both header values and one more free slot
C13_Witness ==
    /\ last_call = "input" /\ last_ret.tag = "ok"
    /\ local_next_seq_to_receive + 1 \in Keys(receiving_queue)
    /\ LET out == Out([hdr_ok |-> TRUE, hdr |-> [wnd |-> 1, nack |-> 1],
                       frags |-> <<PushOf(local_next_seq_to_receive, 1)>>])
       IN  /\ out.ret = "ok"
           /\ out.summary.local_next_seq_to_receive = local_next_seq_to_receive + 2
           /\ out.summary.remote_rwnd = 1
           /\ out.summary.remote_nack = 1
           /\ out.summary.remote_seqs_to_ack = <<local_next_seq_to_receive>>
           /\ out.summary.local_receiving_queue_free_len =
                  max_local_receiving_queue_len - Cardinality(Keys(receiving_queue)) + 1

\* C14: a recv() returns and removes the oldest fragment of the ready queue,
\* or returns nothing when the queue is empty, and leaves
\* local_next_seq_to_receive, the pending window (so its free capacity) and
\* the rest of the ready queue as they were.
C14_RecvPopsFront ==
    [][last_call' = "recv" =>
          /\ local_next_seq_to_receive' = local_next_seq_to_receive
          /\ receiving_queue' = receiving_queue
          /\ max_local_receiving_queue_len' = max_local_receiving_queue_len
          /\ IF received_queue = <<>>
             THEN /\ last_ret' = [tag |-> "None", frag |-> NoFrag]
                  /\ received_queue' = <<>>
             ELSE /\ last_ret' = [tag |-> "Some", frag |-> received_queue[1]]
                  /\ received_queue' =
                         [i \in 1 .. Len(received_queue) - 1 |-> received_queue[i + 1]]]_vars

\* a recv() has returned a fragment while others wait in the ready queue and
\* in the pending window
C14_Witness ==
    /\ last_call = "recv" /\ last_ret.tag = "Some"
    /\ Len(received_queue) >= 2
    /\ Keys(receiving_queue) # {}

\* the number of fragments ever appended to the ready queue
EverAppended == recv_count + Len(received_queue)

\* C15: local_next_seq_to_receive never moves backwards: no step lowers it,
\* each step raises it by the number of fragments the step appends to the
\* ready queue, and it always equals 0, its initial value, plus the number of
\* fragments ever appended.
C15_NextNeverBackwards ==
    /\ [](local_next_seq_to_receive = EverAppended)
    /\ [][/\ local_next_seq_to_receive' >= local_next_seq_to_receive
          /\ local_next_seq_to_receive' - local_next_seq_to_receive
                 = EverAppended' - EverAppended]_vars

\* after an input, next has advanced to 3 or beyond with fragments both
\* returned by recv() and still waiting
C15_Witness ==
    /\ last_call = "input" /\ last_ret.tag = "ok"
    /\ local_next_seq_to_receive >= 3
    /\ recv_count >= 1
    /\ received_queue # <<>>

\* ------------------------------------------------------- claims on Seq
\* half the ordinal space
HalfSpace == Modulus \div 2

\* the forward distance from a to b: b - a modulo the ordinal space
ForwardDistance(a, b) == (b.n - a.n) % Modulus

\* cmp(a, b) is the reverse of cmp(b, a)
Reverses(x, y) ==
    \/ x = "Less" /\ y = "Greater"
    \/ x = "Equal" /\ y = "Equal"
    \/ x = "Greater" /\ y = "Less"

\* exactly one of a < b, a == b, a > b holds, and cmp(b, a) is its reverse
C16_Trichotomy ==
    /\ SeqCmp(seq_a, seq_b) \in {"Less", "Equal", "Greater"}
    /\ SeqCmp(seq_a, seq_b) = "Equal" <=> seq_a = seq_b
    /\ Reverses(SeqCmp(seq_a, seq_b), SeqCmp(seq_b, seq_a))
    /\ seq_op = "cmp" => seq_ret = SeqCmp(seq_a, seq_b)

\* C16: the comparison on Seq is a total order: for any a and b exactly one
\* of a < b, a == b, a > b holds, also when they are half the ordinal space
\* apart, cmp(a, b) is the reverse of cmp(b, a), and a < b and b < c imply
\* a < c.
C16_TotalOrder ==
    /\ C16_Trichotomy
    /\ SeqLt(seq_a, seq_b) /\ SeqLt(seq_b, seq_c) => SeqLt(seq_a, seq_c)

\* C17: for distinct a and b, a < b exactly when the forward distance from a
\* to b is at most half the ordinal space, otherwise a > b; so the maximum
\* ordinal is less than 0, 0 is less than half-space, and half-space + 1 is
\* less than 0.
C17_ShorterDistance ==
    /\ seq_a # seq_b =>
           SeqCmp(seq_a, seq_b) =
               IF ForwardDistance(seq_a, seq_b) <= HalfSpace THEN "Less" ELSE "Greater"
    /\ SeqLt(SeqFromU32(U32Max), SeqFromU32(0))
    /\ SeqLt(SeqFromU32(0), SeqFromU32(HalfSpace))
    /\ SeqLt(SeqFromU32(HalfSpace + 1), SeqFromU32(0))

\* C17, amended: for distinct a and b, a < b when the forward distance from a
\* to b is below half the ordinal space and a > b when it is above; when it
\* is exactly half, the numerically larger of the two is the lesser one. So
\* the maximum ordinal is less than 0, 0 is less than half-space - 1,
\* half-space is less than 0, and half-space + 1 is less than 0.
C17_ShorterDistanceTieBreak ==
    /\ seq_a # seq_b =>
           SeqCmp(seq_a, seq_b) =
               IF ForwardDistance(seq_a, seq_b) < HalfSpace THEN "Less"
               ELSE IF ForwardDistance(seq_a, seq_b) > HalfSpace THEN "Greater"
               ELSE IF seq_a.n > seq_b.n THEN "Less" ELSE "Greater"
    /\ seq_op = "cmp" => seq_ret = SeqCmp(seq_a, seq_b)
    /\ SeqLt(SeqFromU32(U32Max), SeqFromU32(0))
    /\ SeqLt(SeqFromU32(0), SeqFromU32(HalfSpace - 1))
    /\ SeqLt(SeqFromU32(HalfSpace), SeqFromU32(0))
    /\ SeqLt(SeqFromU32(HalfSpace + 1), SeqFromU32(0))

\* two ordinals exactly half the space apart have been compared, the lower
\* one on the left, and it came out the greater
C17_Witness ==
    /\ seq_op = "cmp"
    /\ seq_a.n < seq_b.n
    /\ ForwardDistance(seq_a, seq_b) = HalfSpace
    /\ seq_ret = "Greater"

\* C18: add_usize and sub are modular and inverse: for an offset n below the
\* size of the ordinal space a.add_usize(n).sub(a) = n, and
\* b.add_usize(a.sub(b)) = a; add_usize wraps (max + 1 = 0), sub is the
\* forward circular distance (0 - max = 1, x - x = 0, 3 - 1 = 2), and
\* increment() is add_usize(1).
C18_AddSubInverse ==
    /\ seq_n < Modulus => SeqSub(SeqAddUsize(seq_a, seq_n), seq_a) = seq_n
    /\ seq_op = "add_usize" /\ seq_n < Modulus => SeqSub(seq_ret, seq_a) = seq_n
    /\ SeqAddUsize(seq_b, SeqSub(seq_a, seq_b)) = seq_a
    /\ seq_op = "sub" => SeqAddUsize(seq_b, seq_ret) = seq_a
    /\ seq_op = "sub" => seq_ret = ForwardDistance(seq_b, seq_a)
    /\ SeqAddUsize(SeqFromU32(U32Max), 1) = SeqFromU32(0)
    /\ SeqAddUsize(SeqFromU32(0), 1) = SeqFromU32(1)
    /\ SeqSub(SeqFromU32(0), SeqFromU32(U32Max)) = 1
    /\ SeqSub(seq_a, seq_a) = 0
    /\ SeqSub(SeqFromU32(3), SeqFromU32(1)) = 2
    /\ SeqIncrement(seq_c) = SeqAddUsize(seq_c, 1)
    /\ [][seq_op' = "increment" => seq_c' = SeqAddUsize(seq_c, 1)]_vars

\* an addition that wrapped past the maximum ordinal
C18_Witness ==
    /\ seq_op = "add_usize"
    /\ seq_n \in 1 .. U32Max
    /\ seq_a.n + seq_n >= Modulus
    /\ seq_ret.n < seq_a.n

\* C19: building with a capacity of 0 fails at construction, so no engine
\* with a zero capacity ever exists; building with a positive capacity
\* succeeds and yields an engine with local_next_seq_to_receive = 0, an empty
\* pending window and an empty ready queue.
C19_ZeroCapacityRejected ==
    /\ Running => max_local_receiving_queue_len > 0
    /\ last_call = "build" =>
           IF max_local_receiving_queue_len = 0
           THEN status = "panicked"
           ELSE /\ status = "running"
                /\ local_next_seq_to_receive = 0
                /\ receiving_queue = EmptyMap
                /\ received_queue = <<>>

\* a build with capacity 0 has been attempted and has aborted
C19_Witness ==
    /\ last_call = "build"
    /\ max_local_receiving_queue_len = 0
    /\ status = "panicked"

\* the sequence numbers of the fragments a step appends to the ready queue
\* (an input only appends; a recv leaves the pending window alone)
NewlyReady ==
    {received_queue'[i].origin : i \in Len(received_queue) + 1 .. Len(received_queue')}

\* C20: the engine never acknowledges a fragment it does not hold: every
\* sequence number in remote_seqs_to_ack of an input is, when the input
\* returns, already appended to the ready queue (it precedes the returned
\* local_next_seq_to_receive) or a key of the pending window; and no step
\* removes a fragment from the pending window other than by appending it to
\* the ready queue.
C20_AcksOnlyHeld ==
    /\ [](Running => \A rdr \in GoodPackets :
              LET out == Out(rdr)
              IN  out.ret = "ok" =>
                      \A i \in 1 .. Len(out.summary.remote_seqs_to_ack) :
                          LET s == out.summary.remote_seqs_to_ack[i]
                          IN  \/ /\ s < out.summary.local_next_seq_to_receive
                                 /\ \E j \in 1 .. Len(out.self.received) :
                                        out.self.received[j].origin = s
                              \/ s \in Keys(out.self.receiving))
    /\ [][\A k \in Keys(receiving_queue) :
              \/ /\ k \in Keys(receiving_queue')
                 /\ receiving_queue'[k].origin = k
              \/ /\ last_call' = "input"
                 /\ k \in NewlyReady]_vars

\* after an input that left a fragment pending behind a gap: one more input
\* acknowledges two pushes, holding one in the ready queue and the other in
\* the pending window
C20_Witness ==
    /\ last_call = "input" /\ last_ret.tag = "ok"
    /\ Keys(receiving_queue) # {}
    /\ \E rdr \in GoodPackets :
           LET out == Out(rdr)
           IN  /\ out.ret = "ok"
               /\ Len(out.summary.remote_seqs_to_ack) = 2
               /\ out.summary.remote_seqs_to_ack[1] < out.self.next
               /\ out.summary.remote_seqs_to_ack[2] \in Keys(out.self.receiving)

\* C21: in every reachable state each key of the pending window lies strictly
\* between local_next_seq_to_receive and local_next_seq_to_receive + capacity,
\* so the pending window holds at most capacity - 1 entries, and every summary
\* reports local_receiving_queue_free_len >= 1: the subtraction
\* capacity - pending_window.len() never underflows and the window never
\* reports itself full.
C21_WindowNeverFull ==
    Running =>
        /\ \A k \in Keys(receiving_queue) :
               /\ local_next_seq_to_receive < k
               /\ k < local_next_seq_to_receive + max_local_receiving_queue_len
        /\ Cardinality(Keys(receiving_queue)) <= max_local_receiving_queue_len - 1
        /\ \A rdr \in GoodPackets :
               LET out == Out(rdr)
                   pending == Cardinality(Keys(out.self.receiving))
               IN  out.ret = "ok" =>
                       /\ ~SubUsize(max_local_receiving_queue_len, pending).overflow
                       /\ out.summary.local_receiving_queue_free_len
                              = max_local_receiving_queue_len - pending
                       /\ out.summary.local_receiving_queue_free_len >= 1

\* after an input, a pending window as full as it gets: capacity - 1 entries,
\* the last one at next + capacity - 1, and an input that leaves it so
\* reports one free slot
C21_Witness ==
    /\ last_call = "input" /\ last_ret.tag = "ok"
    /\ max_local_receiving_queue_len >= 2
    /\ Cardinality(Keys(receiving_queue)) = max_local_receiving_queue_len - 1
    /\ local_next_seq_to_receive + max_local_receiving_queue_len - 1
           \in Keys(receiving_queue)
    /\ Out(Pkt(<<AckOf(1)>>)).summary.local_receiving_queue_free_len = 1

====
